---- MODULE Spec2Model ----
(***************************************************************************)
(* A model of render_utils.py: the Includer hierarchy (push / render, the  *)
(* compiled-includes cache, path relativization) and the document scan of  *)
(* make_context.  Strings are TLA+ strings; Python's string operations are *)
(* written out character by character.                                     *)
(***************************************************************************)
EXTENDS Integers, Sequences, FiniteSets, TLC

VARIABLES
    compile_includes,   \* g.compile_includes
    compiled_includes,  \* g.compiled_includes: path -> timestamp_path
    includes,           \* Includer.includes, one list per includer
    asset_depth,        \* Includer.asset_depth
    request_path,       \* flask request.path
    now,                \* int(time.time())
    files,              \* the files render has opened for writing: name -> state
    result,             \* the outcome of the last push or render call
    emitted,            \* the (path, timestamp_path) pairs compilation-mode renders returned
    rel_in,             \* _relativize_path alone: its arguments and request.path
    rel_out,            \* _relativize_path alone: whether it has run, and its result
    soup,               \* make_context: the sibling nodes of the parsed document
    pc,                 \* make_context: where the scan is
    tag_i,              \* make_context: the node 'for tag in soup.findAll' is at
    sib_i,              \* make_context: the node 'for sib in tag.next_siblings' is at
    text,               \* what make_context has added to doc.text
    text_list,          \* the entries make_context has appended to doc.text_list
    positions,          \* the position in soup of the sibling behind each text_list entry
    t_pc,               \* concurrent renders: the line of render each request is at
    t_timestamp_path,   \* concurrent renders: each request's local timestamp_path
    t_markup,           \* concurrent renders: the markup each request's last render returned
    t_renders,          \* concurrent renders: the renders each request has finished
    last_record         \* concurrent renders: the request that ran line 83 last, and its value

incVars == <<compile_includes, compiled_includes, includes, asset_depth,
             request_path, now, files, result, emitted>>

relVars == <<rel_in, rel_out>>

docVars == <<soup, pc, tag_i, sib_i, text, text_list, positions>>

concVars == <<t_pc, t_timestamp_path, t_markup, t_renders, last_record>>

vars == <<incVars, relVars, docVars, concVars>>

----------------------------------------------------------------------------
(* Bounds *)

MaxPending == 2
MaxClock == 2
MaxAssetDepth == 1
MaxRelDepth == 3
MaxSiblings == 4
MaxRenders == 2

----------------------------------------------------------------------------
(* Python string operations *)

\* str.startswith
StartsWith(s, prefix) ==
    Len(s) >= Len(prefix) /\ SubSeq(s, 1, Len(prefix)) = prefix

\* s[n:]
From(s, n) == SubSeq(s, n + 1, Len(s))

\* str.find for a single character: the 1-based index of the first c, 0 if none
RECURSIVE FindChar(_, _, _)
FindChar(s, c, i) ==
    IF i > Len(s) THEN 0
    ELSE IF SubSeq(s, i, i) = c THEN i
    ELSE FindChar(s, c, i + 1)

\* str.split(sep) for a one-character separator
RECURSIVE Split(_, _)
Split(s, sep) ==
    LET k == FindChar(s, sep, 1)
    IN  IF k = 0 THEN <<s>>
        ELSE <<SubSeq(s, 1, k - 1)>> \o Split(From(s, k), sep)

\* sep.join(list)
RECURSIVE Join(_, _)
Join(list, sep) ==
    IF Len(list) = 0 THEN ""
    ELSE IF Len(list) = 1 THEN list[1]
    ELSE list[1] \o sep \o Join(Tail(list), sep)

\* str.replace(old, new): every non-overlapping occurrence, left to right
RECURSIVE Replace(_, _, _)
Replace(s, old, new) ==
    IF Len(s) = 0 THEN ""
    ELSE IF StartsWith(s, old)
         THEN new \o Replace(From(s, Len(old)), old, new)
         ELSE SubSeq(s, 1, 1) \o Replace(From(s, 1), old, new)

\* 'sub in s'
Contains(s, sub) ==
    \E i \in 1..(Len(s) - Len(sub) + 1) : SubSeq(s, i, i + Len(sub) - 1) = sub

\* '%i' % n for n >= 0
RECURSIVE IntToStr(_)
IntToStr(n) ==
    LET d == SubSeq("0123456789", (n % 10) + 1, (n % 10) + 1)
    IN  IF n < 10 THEN d ELSE IntToStr(n \div 10) \o d

----------------------------------------------------------------------------
(* Includer *)

Includers == {"JS", "CSS"}

\* the source paths templates push, and the output paths they render
AssetPaths == {"www/js/a.js", "less/b.less"}
OutPaths == {"js/app.min.js", "www/css/app.min.css"}
RequestPaths == {"/", "/a/b/"}

\* JavascriptIncluder.__init__ / CSSIncluder.__init__: tag_string, split at its %s
TagOpen(inc) ==
    IF inc = "JS" THEN "<script type=\"text/javascript\" src=\""
    ELSE "<link rel=\"stylesheet\" type=\"text/css\" href=\""

TagClose(inc) ==
    IF inc = "JS" THEN "\"></script>" ELSE "\" />"

\* self.tag_string % x
Tag(inc, x) == TagOpen(inc) \o x \o TagClose(inc)

\* Mutant of PrependUp: the loop runs once more (depth >= 0).
RECURSIVE PrependUp_once_more(_, _)
PrependUp_once_more(relative_path, depth) ==
    IF depth >= 0 THEN PrependUp_once_more("../" \o relative_path, depth - 1)
    ELSE relative_path

\* the while loop of _relativize_path
RECURSIVE PrependUp(_, _)
PrependUp(relative_path, depth) ==
    IF depth > 0 THEN PrependUp("../" \o relative_path, depth - 1)
    ELSE relative_path

\* Includer._relativize_path
relativize_path(path, reqpath, adepth) ==
    LET relative_path == IF StartsWith(path, "www/") THEN From(path, 4) ELSE path
        depth == Len(Split(reqpath, "/")) - (2 + adepth)
    IN  PrependUp(relative_path, depth)

Put(map, k, v) == [x \in DOMAIN map \cup {k} |-> IF x = k THEN v ELSE map[x]]

Empty == [x \in {} |-> ""]

\* What the last call did: the method, the branch of render it took, its
\* arguments, whether it returned or raised, and the markup it returned.
Returned(inc, path, op, branch, value) ==
    [op |-> op, branch |-> branch, inc |-> inc, path |-> path,
     status |-> "returned", value |-> value]

Raised(inc, path) ==
    [op |-> "render", branch |-> "miss", inc |-> inc, path |-> path,
     status |-> "raised", value |-> ""]

\* The state of an output file.  Its content is what slimit, lessc and the
\* template engine return, which the model does not follow: a file is "empty"
\* once codecs.open(out_path, 'w') has truncated it and "written" once
\* f.write(self._compress()) has run.
Truncated == "empty"
Written == "written"

\* Mutant of Cleared: the pending list is left as it was.
Cleared_kept(inc) == includes

\* del self.includes[:]
Cleared(inc) == [includes EXCEPT ![inc] = <<>>]

\* Includer.push
push(inc, path) ==
    /\ Len(includes[inc]) < MaxPending
    /\ includes' = [includes EXCEPT ![inc] = Append(@, path)]
    /\ result' = Returned(inc, path, "push", "push", "")
    /\ UNCHANGED <<compile_includes, compiled_includes, asset_depth,
                   request_path, now, files, emitted>>

\* Mutant of DevResponse: the comma-joined paths of line 87 are returned.
DevResponse_commas(inc) == Join(includes[inc], ",")

\* render, development mode: one tag per pending path
DevResponse(inc) ==
    Join([i \in 1..Len(includes[inc]) |->
            Tag(inc, relativize_path(includes[inc][i], request_path, asset_depth))],
         "\n")

RenderDev(inc, path) ==
    /\ ~compile_includes
    /\ result' = Returned(inc, path, "render", "dev", DevResponse(inc))
    /\ includes' = Cleared(inc)
    /\ UNCHANGED <<compile_includes, compiled_includes, asset_depth,
                   request_path, now, files, emitted>>

\* Mutant of Cached: the cache is asked for the timestamped path.
Cached_stamped(path) == (path \o "?" \o IntToStr(now)) \in DOMAIN compiled_includes

\* 'if path in g.compiled_includes'
Cached(path) == path \in DOMAIN compiled_includes

\* render, compilation mode, the path already compiled
RenderHit(inc, path) ==
    /\ compile_includes
    /\ Cached(path)
    /\ LET timestamp_path == compiled_includes[path]
       IN  /\ result' = Returned(inc, path, "render", "hit",
                   Tag(inc, relativize_path(timestamp_path, request_path, asset_depth)))
           /\ emitted' = emitted \cup {<<path, timestamp_path>>}
    /\ includes' = Cleared(inc)
    /\ UNCHANGED <<compile_includes, compiled_includes, asset_depth,
                   request_path, now, files>>

\* render, compilation mode, the path not yet compiled and _compress returns
RenderMiss(inc, path) ==
    /\ compile_includes
    /\ ~Cached(path)
    /\ LET timestamp_path == path \o "?" \o IntToStr(now)
           out_path == "www/" \o path
       IN  /\ files' = Put(files, out_path, Written)
           /\ compiled_includes' = Put(compiled_includes, path, timestamp_path)
           /\ result' = Returned(inc, path, "render", "miss",
                   Tag(inc, relativize_path(timestamp_path, request_path, asset_depth)))
           /\ emitted' = emitted \cup {<<path, timestamp_path>>}
    /\ includes' = Cleared(inc)
    /\ UNCHANGED <<compile_includes, asset_depth, request_path, now>>

\* Mutant of RenderMissRaise: the cache entry is recorded before _compress runs.
RenderMissRaise_recorded(inc, path) ==
    /\ compile_includes
    /\ path \notin DOMAIN compiled_includes
    /\ Len(includes[inc]) > 0
    /\ files' = Put(files, "www/" \o path, Truncated)
    /\ compiled_includes' = Put(compiled_includes, path, path \o "?" \o IntToStr(now))
    /\ result' = Raised(inc, path)
    /\ UNCHANGED <<compile_includes, includes, asset_depth, request_path, now, emitted>>

\* render, compilation mode, the path not yet compiled and _compress raises:
\* codecs.open has truncated the output file, nothing after f.write runs
RenderMissRaise(inc, path) ==
    /\ compile_includes
    /\ ~Cached(path)
    /\ Len(includes[inc]) > 0
    /\ files' = Put(files, "www/" \o path, Truncated)
    /\ result' = Raised(inc, path)
    /\ UNCHANGED <<compile_includes, compiled_includes, includes, asset_depth,
                   request_path, now, emitted>>

\* make_context: fresh includers for the request being served
NewContext(reqpath, adepth) ==
    /\ includes' = [inc \in Includers |-> <<>>]
    /\ asset_depth' = adepth
    /\ request_path' = reqpath
    /\ UNCHANGED <<compile_includes, compiled_includes, now, files, result, emitted>>

\* a second passes
Tick ==
    /\ now < MaxClock
    /\ now' = now + 1
    /\ UNCHANGED <<compile_includes, compiled_includes, includes, asset_depth,
                   request_path, files, result, emitted>>

NoCall == [op |-> "none", branch |-> "none", inc |-> "JS", path |-> "", status |-> "returned", value |-> ""]

IncInit ==
    /\ compile_includes \in BOOLEAN
    /\ compiled_includes = Empty
    /\ includes = [inc \in Includers |-> <<>>]
    /\ asset_depth \in 0..MaxAssetDepth
    /\ request_path \in RequestPaths
    /\ now = 0
    /\ files = Empty
    /\ result = NoCall
    /\ emitted = {}

----------------------------------------------------------------------------
(* _relativize_path as a function of its inputs *)

RelPaths == {"www/foo/bar.js", "foo/bar.js", "www/", "wwwx/a.js", "js/www/a.js", ""}
RelRequestPaths == {"/", "/a", "/a/", "/a/b/", "/a/b/c.html"}

RelIdle ==
    /\ rel_in = [path |-> "", request_path |-> "/", asset_depth |-> 0]
    /\ rel_out = [done |-> FALSE, value |-> ""]

RelInit ==
    /\ rel_in \in [path : RelPaths, request_path : RelRequestPaths,
                   asset_depth : 0..MaxRelDepth]
    /\ rel_out = [done |-> FALSE, value |-> ""]

Relativize ==
    /\ ~rel_out.done
    /\ rel_out' = [done |-> TRUE,
                   value |-> relativize_path(rel_in.path, rel_in.request_path,
                                             rel_in.asset_depth)]
    /\ UNCHANGED rel_in

----------------------------------------------------------------------------
(* make_context: the scan of the document *)

\* The document is the list of element nodes that are siblings of one
\* another, in document order.  A node is its tag name, sib.text,
\* unicode(sib), and sib.a (no element when the node holds no link).
Node(name, txt, markup) ==
    [name |-> name, text |-> txt, markup |-> markup, a |-> <<>>]

LinkNode(txt, markup, atext, href) ==
    [name |-> "p", text |-> txt, markup |-> markup,
     a |-> <<[text |-> atext, href |-> href]>>]

Nodes ==
    { Node("p", "TEXT:", "<p>TEXT:</p>"),
      Node("h2", "TEXT: head", "<h2>TEXT: head</h2>"),
      Node("p", "-30-", "<p>-30-</p>"),
      Node("p", "-30- ends", "<p>-30- ends</p>"),
      Node("p", "hello", "<p>hello</p>"),
      Node("p", "<img src=x>", "<p>&lt;img src=x&gt;</p>"),
      Node("p", "CAPTION: a caption", "<p>CAPTION: a caption</p>"),
      Node("p", "CAPTION:tight", "<p>CAPTION:tight</p>"),
      LinkNode("DOCUMENT: Snow Plan", "<p>DOCUMENT: <a href=\"http://x/p\">Snow Plan</a></p>",
               "Snow Plan", "http://x/p"),
      LinkNode("DOCUMENT: Tow deal", "<p>DOCUMENT: <a href=\"http://x/c\">Tow deal</a></p>",
               "Tow deal", "http://x/c"),
      Node("p", "DOCUMENT: lost", "<p>DOCUMENT: lost</p>") }

\* dict_template
dict_template == [template |-> "main", text |-> "", class |-> ""]

IsStart(tag) == tag.name = "p" /\ StartsWith(tag.text, "TEXT:")

IsEnd(sib) == sib.text = "-30-"

IsRaw(sib) ==
    \/ StartsWith(sib.text, "<iframe")
    \/ StartsWith(sib.text, "<p data")
    \/ StartsWith(sib.text, "<hr")
    \/ StartsWith(sib.text, "<img")

IsDocument(sib) == StartsWith(sib.text, "DOCUMENT:")

IsCaption(sib) == StartsWith(sib.text, "CAPTION:")

\* the positions of the nodes soup.findAll('p') returns that come after position i
LaterTags(i) == {j \in (i + 1)..Len(soup) : soup[j].name = "p"}

Min(S) == CHOOSE x \in S : \A y \in S : x <= y

\* findAll('p') has no further paragraph: make_context returns
TagsDone ==
    /\ pc = "findAll"
    /\ LaterTags(tag_i) = {}
    /\ pc' = "returned"
    /\ UNCHANGED <<soup, tag_i, sib_i, text, text_list, positions>>

\* the next paragraph does not start with TEXT:
TagSkip ==
    /\ pc = "findAll"
    /\ LaterTags(tag_i) # {}
    /\ LET j == Min(LaterTags(tag_i))
       IN  /\ ~IsStart(soup[j])
           /\ tag_i' = j
    /\ UNCHANGED <<soup, pc, sib_i, text, text_list, positions>>

\* the next paragraph starts with TEXT:, its next_siblings are walked
TagStart ==
    /\ pc = "findAll"
    /\ LaterTags(tag_i) # {}
    /\ LET j == Min(LaterTags(tag_i))
       IN  /\ IsStart(soup[j])
           /\ tag_i' = j
           /\ sib_i' = j + 1
    /\ pc' = "siblings"
    /\ UNCHANGED <<soup, text, text_list, positions>>

\* next_siblings is exhausted
SibsDone ==
    /\ pc = "siblings"
    /\ sib_i > Len(soup)
    /\ pc' = "findAll"
    /\ UNCHANGED <<soup, tag_i, sib_i, text, text_list, positions>>

\* Mutant of SibEnd: the end sentinel is skipped and the walk goes on.
SibEnd_continue ==
    /\ pc = "siblings"
    /\ sib_i <= Len(soup)
    /\ soup[sib_i].text = "-30-"
    /\ sib_i' = sib_i + 1
    /\ UNCHANGED <<soup, pc, tag_i, text, text_list, positions>>

\* sib.text == "-30-": break
SibEnd ==
    /\ pc = "siblings"
    /\ sib_i <= Len(soup)
    /\ IsEnd(soup[sib_i])
    /\ pc' = "findAll"
    /\ UNCHANGED <<soup, tag_i, sib_i, text, text_list, positions>>

\* doc.text_list.append(dict_copy), and on to the next sibling
Emit(dict_copy) ==
    /\ text_list' = Append(text_list, dict_copy)
    /\ positions' = Append(positions, sib_i)
    /\ sib_i' = sib_i + 1
    /\ UNCHANGED <<soup, pc, tag_i>>

SibRaw ==
    /\ pc = "siblings"
    /\ sib_i <= Len(soup)
    /\ LET sib == soup[sib_i]
       IN  /\ ~IsEnd(sib)
           /\ IsRaw(sib)
           /\ text' = text \o sib.text
           /\ Emit([dict_template EXCEPT !.text = sib.text,
                                         !.class = "col-sm-10 col-sm-offset-1"])

\* the block a DOCUMENT: sibling is replaced by
DocumentBlock(sib) ==
    LET i == IF Contains(sib.a[1].text, "Plan") THEN "document" ELSE "contract"
    IN  "<p class=\"document image\"><a href=\"" \o SubSeq(sib.a[1].href, 1, 1)
        \o "\" >" \o sib.a[1].text
        \o "<br><img class=\"img-rounded\" src=\"https://s3.amazonaws.com/wbez-assets/WBEZ-Graphics/snow-tows/"
        \o i \o ".jpg\" /></a></p>"

SibDocument ==
    /\ pc = "siblings"
    /\ sib_i <= Len(soup)
    /\ LET sib == soup[sib_i]
       IN  /\ ~IsEnd(sib) /\ ~IsRaw(sib)
           /\ IsDocument(sib)
           /\ sib.a # <<>>
           /\ Emit([dict_template EXCEPT !.text = DocumentBlock(sib)])
    /\ UNCHANGED text

\* sib.a is None: sib.a.text raises AttributeError
SibDocumentRaise ==
    /\ pc = "siblings"
    /\ sib_i <= Len(soup)
    /\ LET sib == soup[sib_i]
       IN  /\ ~IsEnd(sib) /\ ~IsRaw(sib)
           /\ IsDocument(sib)
           /\ sib.a = <<>>
    /\ pc' = "raised"
    /\ UNCHANGED <<soup, tag_i, sib_i, text, text_list, positions>>

\* Mutant of SibCaption: the caption is added to doc.text as the other branches do.
SibCaption_texted ==
    /\ pc = "siblings"
    /\ sib_i <= Len(soup)
    /\ LET sib == soup[sib_i]
       IN  /\ sib.text # "-30-" /\ ~IsRaw(sib) /\ ~IsDocument(sib)
           /\ IsCaption(sib)
           /\ text' = text \o Replace(sib.markup, "CAPTION: ", "")
           /\ Emit([dict_template EXCEPT !.text = Replace(sib.markup, "CAPTION: ", ""),
                                         !.class = "col-sm-8 col-sm-offset-2 caption"])

SibCaption ==
    /\ pc = "siblings"
    /\ sib_i <= Len(soup)
    /\ LET sib == soup[sib_i]
       IN  /\ ~IsEnd(sib) /\ ~IsRaw(sib) /\ ~IsDocument(sib)
           /\ IsCaption(sib)
           /\ Emit([dict_template EXCEPT !.text = Replace(sib.markup, "CAPTION: ", ""),
                                         !.class = "col-sm-8 col-sm-offset-2 caption"])
    /\ UNCHANGED text

SibPlain ==
    /\ pc = "siblings"
    /\ sib_i <= Len(soup)
    /\ LET sib == soup[sib_i]
       IN  /\ ~IsEnd(sib) /\ ~IsRaw(sib) /\ ~IsDocument(sib) /\ ~IsCaption(sib)
           /\ text' = text \o sib.markup
           /\ Emit([dict_template EXCEPT !.text = sib.markup])

\* the sequences of at most n nodes
RECURSIVE Soups(_)
Soups(n) ==
    IF n = 0 THEN {<<>>}
    ELSE LET shorter == Soups(n - 1)
         IN  shorter \cup {Append(d, x) : d \in shorter, x \in Nodes}

DocInit ==
    /\ soup \in Soups(MaxSiblings)
    /\ pc = "findAll"
    /\ tag_i = 0
    /\ sib_i = 0
    /\ text = ""
    /\ text_list = <<>>
    /\ positions = <<>>

DocIdle ==
    /\ soup = <<>>
    /\ pc = "returned"
    /\ tag_i = 0
    /\ sib_i = 0
    /\ text = ""
    /\ text_list = <<>>
    /\ positions = <<>>

----------------------------------------------------------------------------
(* Includer.render in compilation mode, called by requests that run in      *)
(* parallel: one step per access to g.compiled_includes, the clock and the  *)
(* output file.  Every request renders ConcPath through a JavascriptIncluder *)
(* of its own, so the pending lists are not shared and are left out.         *)

Requests == {"r1", "r2"}

ConcPath == "js/app.min.js"

NoRecord == [by |-> "none", timestamp_path |-> ""]

ConcIdle ==
    /\ t_pc = [t \in Requests |-> "idle"]
    /\ t_timestamp_path = [t \in Requests |-> ""]
    /\ t_markup = [t \in Requests |-> ""]
    /\ t_renders = [t \in Requests |-> 0]
    /\ last_record = NoRecord

\* a request's first render may start at any time; a later one starts once
\* every request has finished its first
Begin(t) ==
    /\ t_pc[t] = "idle"
    /\ t_renders[t] < MaxRenders
    /\ t_renders[t] > 0 => \A u \in Requests : t_renders[u] > 0
    /\ t_pc' = [t_pc EXCEPT ![t] = "line68"]
    /\ UNCHANGED <<t_timestamp_path, t_markup, t_renders, last_record>>
    /\ UNCHANGED <<incVars, relVars, docVars>>

\* line 68, path in g.compiled_includes: line 69
CheckHit(t) ==
    /\ t_pc[t] = "line68"
    /\ Cached(ConcPath)
    /\ t_timestamp_path' = [t_timestamp_path EXCEPT ![t] = compiled_includes[ConcPath]]
    /\ t_pc' = [t_pc EXCEPT ![t] = "line85"]
    /\ UNCHANGED <<t_markup, t_renders, last_record>>
    /\ UNCHANGED <<incVars, relVars, docVars>>

\* line 68, path not in g.compiled_includes: line 72
CheckMiss(t) ==
    /\ t_pc[t] = "line68"
    /\ ~Cached(ConcPath)
    /\ t_timestamp_path' =
         [t_timestamp_path EXCEPT ![t] = ConcPath \o "?" \o IntToStr(now)]
    /\ t_pc' = [t_pc EXCEPT ![t] = "line76"]
    /\ UNCHANGED <<t_markup, t_renders, last_record>>
    /\ UNCHANGED <<incVars, relVars, docVars>>

\* line 76: the second look at the cache
Recheck(t) ==
    /\ t_pc[t] = "line76"
    /\ t_pc' = [t_pc EXCEPT ![t] = IF Cached(ConcPath) THEN "line83" ELSE "line79"]
    /\ UNCHANGED <<t_timestamp_path, t_markup, t_renders, last_record>>
    /\ UNCHANGED <<incVars, relVars, docVars>>

\* line 79: codecs.open(out_path, 'w') truncates the output file
OpenFile(t) ==
    /\ t_pc[t] = "line79"
    /\ files' = Put(files, "www/" \o ConcPath, Truncated)
    /\ t_pc' = [t_pc EXCEPT ![t] = "line80"]
    /\ UNCHANGED <<t_timestamp_path, t_markup, t_renders, last_record>>
    /\ UNCHANGED <<compile_includes, compiled_includes, includes, asset_depth,
                   request_path, now, result, emitted>>
    /\ UNCHANGED <<relVars, docVars>>

\* line 80: f.write(self._compress())
WriteFile(t) ==
    /\ t_pc[t] = "line80"
    /\ files' = Put(files, "www/" \o ConcPath, Written)
    /\ t_pc' = [t_pc EXCEPT ![t] = "line83"]
    /\ UNCHANGED <<t_timestamp_path, t_markup, t_renders, last_record>>
    /\ UNCHANGED <<compile_includes, compiled_includes, includes, asset_depth,
                   request_path, now, result, emitted>>
    /\ UNCHANGED <<relVars, docVars>>

\* Mutant of Recorded: an entry already there is kept (first writer wins).
Recorded_first(t) ==
    IF ConcPath \in DOMAIN compiled_includes THEN compiled_includes
    ELSE Put(compiled_includes, ConcPath, t_timestamp_path[t])

\* g.compiled_includes[path] = timestamp_path
Recorded(t) == Put(compiled_includes, ConcPath, t_timestamp_path[t])

\* line 83
Record(t) ==
    /\ t_pc[t] = "line83"
    /\ compiled_includes' = Recorded(t)
    /\ last_record' = [by |-> t, timestamp_path |-> t_timestamp_path[t]]
    /\ t_pc' = [t_pc EXCEPT ![t] = "line85"]
    /\ UNCHANGED <<t_timestamp_path, t_markup, t_renders>>
    /\ UNCHANGED <<compile_includes, includes, asset_depth, request_path, now,
                   files, result, emitted>>
    /\ UNCHANGED <<relVars, docVars>>

\* lines 85-97: the markup is built and returned
Return(t) ==
    /\ t_pc[t] = "line85"
    /\ t_markup' = [t_markup EXCEPT ![t] =
         Tag("JS", relativize_path(t_timestamp_path[t], request_path, asset_depth))]
    /\ t_renders' = [t_renders EXCEPT ![t] = @ + 1]
    /\ t_pc' = [t_pc EXCEPT ![t] = "idle"]
    /\ UNCHANGED <<t_timestamp_path, last_record>>
    /\ UNCHANGED <<incVars, relVars, docVars>>

ConcInit ==
    /\ compile_includes = TRUE
    /\ compiled_includes = Empty
    /\ includes = [inc \in Includers |-> <<>>]
    /\ asset_depth = 0
    /\ request_path \in RequestPaths
    /\ now = 0
    /\ files = Empty
    /\ result = NoCall
    /\ emitted = {}
    /\ ConcIdle

----------------------------------------------------------------------------
(* Specifications *)

IncIdle ==
    /\ compile_includes = FALSE
    /\ compiled_includes = Empty
    /\ includes = [inc \in Includers |-> <<>>]
    /\ asset_depth = 0
    /\ request_path = "/"
    /\ now = 0
    /\ files = Empty
    /\ result = NoCall
    /\ emitted = {}

\* pushes and renders, one call at a time
Init == IncInit /\ RelIdle /\ DocIdle /\ ConcIdle

Next ==
    \/ \E inc \in Includers, path \in AssetPaths :
          push(inc, path) /\ UNCHANGED <<relVars, docVars, concVars>>
    \/ \E inc \in Includers, path \in OutPaths :
          \/ RenderDev(inc, path) /\ UNCHANGED <<relVars, docVars, concVars>>
          \/ RenderHit(inc, path) /\ UNCHANGED <<relVars, docVars, concVars>>
          \/ RenderMiss(inc, path) /\ UNCHANGED <<relVars, docVars, concVars>>
          \/ RenderMissRaise(inc, path) /\ UNCHANGED <<relVars, docVars, concVars>>
    \/ \E reqpath \in RequestPaths, adepth \in 0..MaxAssetDepth :
          NewContext(reqpath, adepth) /\ UNCHANGED <<relVars, docVars, concVars>>
    \/ Tick /\ UNCHANGED <<relVars, docVars, concVars>>

Spec == Init /\ [][Next]_vars

\* _relativize_path on one choice of inputs
InitRel == RelInit /\ IncIdle /\ DocIdle /\ ConcIdle

NextRel == Relativize /\ UNCHANGED <<incVars, docVars, concVars>>

SpecRel == InitRel /\ [][NextRel]_vars

\* make_context on one document, a loop iteration at a time
InitDoc == DocInit /\ IncIdle /\ RelIdle /\ ConcIdle

NextDoc ==
    \/ TagsDone /\ UNCHANGED <<incVars, relVars, concVars>>
    \/ TagSkip /\ UNCHANGED <<incVars, relVars, concVars>>
    \/ TagStart /\ UNCHANGED <<incVars, relVars, concVars>>
    \/ SibsDone /\ UNCHANGED <<incVars, relVars, concVars>>
    \/ SibEnd /\ UNCHANGED <<incVars, relVars, concVars>>
    \/ SibRaw /\ UNCHANGED <<incVars, relVars, concVars>>
    \/ SibDocument /\ UNCHANGED <<incVars, relVars, concVars>>
    \/ SibDocumentRaise /\ UNCHANGED <<incVars, relVars, concVars>>
    \/ SibCaption /\ UNCHANGED <<incVars, relVars, concVars>>
    \/ SibPlain /\ UNCHANGED <<incVars, relVars, concVars>>

SpecDoc == InitDoc /\ [][NextDoc]_vars

\* renders of one path by requests running in parallel
InitConc == ConcInit /\ RelIdle /\ DocIdle

NextConc ==
    \/ \E t \in Requests : Begin(t)
    \/ \E t \in Requests : CheckHit(t)
    \/ \E t \in Requests : CheckMiss(t)
    \/ \E t \in Requests : Recheck(t)
    \/ \E t \in Requests : OpenFile(t)
    \/ \E t \in Requests : WriteFile(t)
    \/ \E t \in Requests : Record(t)
    \/ \E t \in Requests : Return(t)
    \/ Tick /\ UNCHANGED <<relVars, docVars, concVars>>

SpecConc == InitConc /\ [][NextConc]_vars

----------------------------------------------------------------------------
(* Claims about the Includer, checked under Spec *)

\* C1: in compilation mode every render of one output path returns the same
\* timestamped path: no two returned pairs give one path two timestamps, and
\* the cache entry of a path is the timestamped path its renders returned, so
\* an entry is never replaced by another timestamp.
C1_SameTimestamp ==
    /\ \A e1 \in emitted : \A e2 \in emitted : e1[1] = e2[1] => e1[2] = e2[2]
    /\ \A p \in DOMAIN compiled_includes : <<p, compiled_includes[p]>> \in emitted

\* a render found the path in the cache, seconds after the render that compiled it
C1_Witness ==
    /\ result.op = "render" /\ result.branch = "hit"
    /\ now > 0
    /\ compiled_includes[result.path] = result.path \o "?0"
    /\ result.value =
         Tag(result.inc, relativize_path(result.path \o "?0", request_path, asset_depth))

C3_DevTags ==
    [][\A inc \in Includers : \A path \in OutPaths :
         RenderDev(inc, path) =>
           LET pending == includes[inc]
               value == result'.value
           IN  IF pending = <<>> THEN value = ""
               ELSE Split(value, "\n") =
                      [i \in 1..Len(pending) |->
                         Tag(inc, relativize_path(pending[i], request_path, asset_depth))]
      ]_vars

\* a path pushed twice came out as two equal tags
C3_Witness ==
    /\ result.op = "render" /\ result.branch = "dev"
    /\ \E a \in AssetPaths :
         LET t == Tag(result.inc, relativize_path(a, request_path, asset_depth))
         IN  result.value = t \o "\n" \o t

\* C6: a render whose _compress raised returned no markup and left no cache
\* entry for its path, so the next render of the path compiles again; and no
\* cached path points at an output file that was opened but never written.
C6_FailedCompileNotCached ==
    /\ (result.op = "render" /\ result.status = "raised")
         => /\ result.value = ""
            /\ result.path \notin DOMAIN compiled_includes
    /\ \A p \in DOMAIN compiled_includes :
         /\ ("www/" \o p) \in DOMAIN files
         /\ files["www/" \o p] = Written

\* the stylesheet compiler failed: the output file is left truncated
C6_Witness ==
    /\ result.op = "render" /\ result.status = "raised" /\ result.inc = "CSS"
    /\ files["www/" \o result.path] = Truncated
    /\ result.path \notin DOMAIN compiled_includes

----------------------------------------------------------------------------
(* Claims about _relativize_path, checked under SpecRel *)

\* n copies of ../
RECURSIVE Ups(_)
Ups(n) == IF n <= 0 THEN "" ELSE "../" \o Ups(n - 1)

\* the number of times the character c occurs in s
RECURSIVE CountChar(_, _)
CountChar(s, c) ==
    IF Len(s) = 0 THEN 0
    ELSE (IF SubSeq(s, 1, 1) = c THEN 1 ELSE 0) + CountChar(SubSeq(s, 2, Len(s)), c)

\* C7: _relativize_path drops a leading www/ and prepends max(0, S - 2 -
\* asset_depth) copies of ../, S the number of segments of the request path
\* split on '/' (one more than its slashes).
C7_Relativize ==
    rel_out.done =>
      LET path == rel_in.path
          S == CountChar(rel_in.request_path, "/") + 1
          n == S - 2 - rel_in.asset_depth
          stripped == IF Len(path) >= 4 /\ SubSeq(path, 1, 4) = "www/"
                      THEN SubSeq(path, 5, Len(path)) ELSE path
      IN  rel_out.value = Ups(IF n > 0 THEN n ELSE 0) \o stripped

\* www/foo/bar.js at asset depth 0 from /a/b/ gives ../../foo/bar.js
C7_Witness ==
    /\ rel_in = [path |-> "www/foo/bar.js", request_path |-> "/a/b/", asset_depth |-> 0]
    /\ rel_out = [done |-> TRUE, value |-> "../../foo/bar.js"]

----------------------------------------------------------------------------
(* Claims about the document scan, checked under SpecDoc *)

\* s begins with the literal lit
Begins(s, lit) == Len(s) >= Len(lit) /\ SubSeq(s, 1, Len(lit)) = lit

\* the start sentinels of the document: the paragraphs whose text begins with TEXT:
StartSentinels == {j \in 1..Len(soup) : soup[j].name = "p" /\ Begins(soup[j].text, "TEXT:")}

\* the siblings after position s whose text is exactly -30-
EndSentinels(s) == {j \in (s + 1)..Len(soup) : soup[j].text = "-30-"}

C5_SourceOrder ==
    \A i \in 1..(Len(positions) - 1) : positions[i] < positions[i + 1]

\* a step that walks over a sibling other than the end sentinel, without raising
ClassifiedStep ==
    /\ pc = "siblings" /\ pc' = "siblings"
    /\ sib_i <= Len(soup)
    /\ sib_i' = sib_i + 1

RawPrefixed(t) ==
    Begins(t, "<iframe") \/ Begins(t, "<p data") \/ Begins(t, "<hr") \/ Begins(t, "<img")

\* C8 as stated: each classified sibling adds one entry to text_list, and each
\* but a DOCUMENT: sibling also adds to doc.text.
C8_AllButDocumentAddText ==
    [][ClassifiedStep =>
         LET t == soup[sib_i].text
         IN  /\ Len(text_list') = Len(text_list) + 1
             /\ SubSeq(text', 1, Len(text)) = text
             /\ IF ~RawPrefixed(t) /\ Begins(t, "DOCUMENT:")
                THEN text' = text
                ELSE Len(text') > Len(text)
      ]_vars

\* C8 as amended: each classified sibling adds one entry to text_list; a
\* raw-passthrough sibling adds its text to doc.text and a plain sibling its
\* markup, in encounter order; DOCUMENT: and CAPTION: siblings add nothing.
C8_RawAndPlainAddText ==
    [][ClassifiedStep =>
         LET sib == soup[sib_i]
             t == sib.text
         IN  /\ Len(text_list') = Len(text_list) + 1
             /\ IF RawPrefixed(t) THEN text' = text \o sib.text
                ELSE IF Begins(t, "DOCUMENT:") \/ Begins(t, "CAPTION:") THEN text' = text
                ELSE text' = text \o sib.markup
      ]_vars

\* a raw, a caption and a plain sibling were collected: doc.text holds the raw
\* text and the plain markup only
C8_Witness ==
    /\ pc = "returned"
    /\ Len(text_list) = 3
    /\ soup[2].text = "<img src=x>"
    /\ soup[3].text = "CAPTION: a caption"
    /\ soup[4].text = "hello"
    /\ positions = <<2, 3, 4>>
    /\ text = "<img src=x><p>hello</p>"

\* the entry the claim gives the sibling sib
ClaimedEntry(sib, entry) ==
    LET t == sib.text
    IN  /\ t # "-30-"
        /\ IF RawPrefixed(t) THEN entry.class = "col-sm-10 col-sm-offset-1"
           ELSE IF Begins(t, "DOCUMENT:")
                THEN /\ entry.class = ""
                     /\ Contains(entry.text,
                          "snow-tows/"
                          \o (IF Contains(sib.a[1].text, "Plan") THEN "document" ELSE "contract")
                          \o ".jpg")
           ELSE IF Begins(t, "CAPTION:")
                THEN /\ entry.class = "col-sm-8 col-sm-offset-2 caption"
                     /\ ~Contains(entry.text, "CAPTION:")
           ELSE entry.class = "" /\ entry.text = sib.markup

\* C9: every entry of text_list is the one the first matching rule gives its
\* sibling: never the end sentinel; the raw class for a raw prefix; the
\* document or contract block with an empty class for DOCUMENT:; the caption
\* class and the prefix stripped for CAPTION:; the markup with an empty class
\* otherwise.
C9_Classification ==
    \A i \in 1..Len(text_list) : ClaimedEntry(soup[positions[i]], text_list[i])

\* C9 without the siblings that begin with CAPTION: not followed by a space
C9_ClassificationSpacedCaptions ==
    \A i \in 1..Len(text_list) :
      LET sib == soup[positions[i]]
      IN  (Begins(sib.text, "CAPTION:") => Begins(sib.text, "CAPTION: "))
            => ClaimedEntry(sib, text_list[i])

----------------------------------------------------------------------------
(* Claims about renders in parallel, checked under SpecConc *)

AllIdle == \A t \in Requests : t_pc[t] = "idle"

\* C10: the cache entry of the path is the timestamped path of the request
\* that ran line 83 last; and once every request has finished its first
\* render, each render that started after that returned the tag of that entry.
C10_LastWriterWins ==
    /\ last_record.by # "none"
         => /\ DOMAIN compiled_includes = {ConcPath}
            /\ compiled_includes[ConcPath] = last_record.timestamp_path
    /\ \A t \in Requests :
         (t_renders[t] >= 2 /\ t_pc[t] = "idle")
           => t_markup[t] =
                Tag("JS", relativize_path(last_record.timestamp_path,
                                          request_path, asset_depth))

\* both requests compiled and returned different timestamps, the request with
\* the older one recorded last, and a later render returned the older one
C10_Witness ==
    /\ AllIdle
    /\ t_renders = [t \in Requests |-> IF t = "r1" THEN 2 ELSE 1]
    /\ files["www/" \o ConcPath] = Written
    /\ last_record = [by |-> "r1", timestamp_path |-> ConcPath \o "?0"]
    /\ t_timestamp_path["r2"] = ConcPath \o "?1"
    /\ t_markup["r1"] =
         Tag("JS", relativize_path(ConcPath \o "?0", request_path, asset_depth))
    /\ t_markup["r2"] =
         Tag("JS", relativize_path(ConcPath \o "?1", request_path, asset_depth))

====
